---- MODULE Spec2Model ----
(***************************************************************************)
(* The Feishu channel adapter of nanoclaw_feishu, in its three variants:   *)
(*   "push"  src/src/channels/feishu.ts         (webhook listener)         *)
(*   "pull"  src/src/channels/feishu-ws.ts      (raw WebSocket)            *)
(*   "sdk"   src/src/channels/feishu-sdk-ws.ts  (Lark SDK WSClient)        *)
(*                                                                         *)
(* Time is counted in ticks of 5 minutes (5 * 60 * 1000 ms), the margin    *)
(* ensureToken uses.  Strings the code builds or cuts (chat keys) are      *)
(* sequences of tokens, so that building and cutting them is computed.     *)
(* An await is a step boundary: the code between two awaits is one step.   *)
(***************************************************************************)
EXTENDS Integers, Sequences, FiniteSets, TLC

\* ---------------------------------------------------------------- bounds
MaxSends == 2          \* sendMessage calls in one behaviour
MaxTime == 1           \* ticks the clock advances
MaxExpire == 2         \* largest validity (ticks) the token endpoint reports
MaxConnects == 1       \* connect() calls in one behaviour
MaxEvents == 2         \* inbound requests / frames in one behaviour
MaxSyncs == 2          \* syncGroupMetadata calls in one behaviour
MaxMessageIds == 2     \* distinct message ids the provider hands out
MaxKeyLen == 3         \* longest key (in tokens) handed to ownsJid
MaxPullConnects == 2   \* connect() calls in one behaviour of the pull transport alone
MaxChatIdLen == 2      \* longest native chat id (in tokens) of the key round trip

\* ------------------------------------------------------- program constants
Margin == 1            \* 5 * 60 * 1000 ms, one tick
NoToken == 0           \* tenantToken: string | null = null
SyncInterval == 288    \* GROUP_SYNC_INTERVAL_MS = 24 h, in ticks
NoSync == -1           \* getLastGroupSync() returns null: never synced

Variants == {"push", "pull", "sdk"}
ChatIds == {<<"oc_a">>, <<"oc_b">>}
SendChats == {<<"oc_a">>}     \* chats the agent answers in; texts tell the items apart
ExpireValues == 1..MaxExpire

VARIABLES
    variant,          \* which of the three source files this adapter is
    encryptKey,       \* push: whether config.encryptKey (FEISHU_ENCRYPT_KEY) is set
    groups,           \* the chat keys opts.registeredGroups() returns
    sdkStarted,       \* sdk: a WSClient has been started (the SDK has no stop)
    inflight,         \* push: requests whose body is being read
    nextEvent,        \* inbound requests / frames / events so far
    last,             \* history: the last inbound request handled, and what it caused
    forwarded,        \* history: the onMessage calls made, in order
    owns,             \* history: the last ownsJid call, its argument and its answer
    disconnected,     \* history: disconnect() has been called and connect() not since
    keys,             \* history: the chat key each sendMessage call was given
    now,              \* Date.now(), in ticks
    connected,        \* this.connected
    server,           \* push: this.server
    orphanListening,  \* push: an earlier http.Server, no longer referenced, still bound
    ws,               \* pull: this.ws and its readyState
    reconnectTimer,   \* pull: this.reconnectTimer
    heartbeatTimer,   \* pull: this.heartbeatTimer
    reconnectsArmed,  \* pull: setTimeout timers of scheduleReconnect armed in the runtime
    heartbeatsArmed,  \* pull: setInterval timers of startHeartbeat alive in the runtime
    rearmed,          \* history: a timer was set while the field held a live one
    wsClient,         \* sdk: this.wsClient
    tenantToken,      \* this.tenantToken
    tokenExpiry,      \* this.tokenExpiry
    outgoingQueue,    \* this.outgoingQueue
    flushing,         \* this.flushing
    connectPc,        \* where the pending connect() call is suspended
    connectResult,    \* how the last connect() promise settled
    connects,         \* connect() calls so far
    refreshTimers,    \* setInterval token-refresh timers alive
    timerRefreshes,   \* refreshToken calls of the timer awaiting the token endpoint
    sends,            \* sendMessage calls suspended in sendMessageToFeishu
    drains,           \* flushOutgoingQueue calls suspended in sendMessageToFeishu
    nextText,         \* texts handed to sendMessage so far
    accepted,         \* history: items sendMessage accepted
    queuedOffline,    \* history: items queued by the disconnected branch, in order
    attempts,         \* history: send requests the provider observed, in order
    delivered,        \* history: items whose sendMessageToFeishu returned normally
    lastReturn,       \* history: the last normal return of ensureToken
    lastRefreshOk,    \* history: whether the last answered refreshToken call succeeded
    sendResult,       \* history: how the promise of each sendMessage call settled
    lastGroupSync,    \* the cursor getLastGroupSync reads and setLastGroupSync writes
    chatNames,        \* the chat keys updateChatName has stored a name for
    syncs             \* the syncGroupMetadata calls so far, each with where it stands

timerVars == <<reconnectsArmed, heartbeatsArmed, rearmed>>
lifecycleVars == <<connected, server, orphanListening, ws, reconnectTimer,
                   heartbeatTimer, timerVars, wsClient, sdkStarted, connectPc, connectResult,
                   connects, refreshTimers>>
inboundVars == <<groups, inflight, nextEvent, last, forwarded>>
tokenVars == <<tenantToken, tokenExpiry>>
queueVars == <<outgoingQueue, flushing>>
taskVars == <<timerRefreshes, sends, drains, nextText>>
historyVars == <<accepted, queuedOffline, attempts, delivered, lastReturn, sendResult>>
syncVars == <<lastGroupSync, chatNames, syncs>>
refreshVars == <<tenantToken, tokenExpiry, lastRefreshOk>>
vars == <<variant, encryptKey, owns, disconnected, keys, syncVars, now, lifecycleVars, refreshVars, queueVars, taskVars,
          historyVars, inboundVars>>

\* ------------------------------------------------------------ chat keys
\* `feishu_${chatId}@feishu.net`
ChatJid(chatId) == <<"feishu_">> \o chatId \o <<"@feishu.net">>

\* chatId.replace(/^feishu_/, '')
StripPrefix(s) == IF Len(s) > 0 /\ Head(s) = "feishu_" THEN Tail(s) ELSE s

\* .replace(/@feishu\.net$/, '')
StripSuffix(s) ==
    IF Len(s) > 0 /\ s[Len(s)] = "@feishu.net" THEN SubSeq(s, 1, Len(s) - 1) ELSE s

\* Mutant: the prefix is stripped as often as it stands at the front.
ActualChatIdGreedy(chatId) == StripSuffix(StripPrefix(StripPrefix(chatId)))

\* chatId.replace(/^feishu_/, '').replace(/@feishu\.net$/, '')
ActualChatId(chatId) == StripSuffix(StripPrefix(chatId))

\* Native chat ids, among them ones that begin with the prefix or end with the
\* suffix of a chat key.
NativeChatIds ==
    UNION {[1..n -> {"feishu_", "oc_a", "@feishu.net"}] : n \in 1..MaxChatIdLen}

\* Mutant: the suffix may stand anywhere in the key.
OwnsJidIncludes(jid) == \E k \in 1..Len(jid) : jid[k] = "@feishu.net"

\* ownsJid: jid.endsWith('@feishu.net')
OwnsJid(jid) == Len(jid) >= 1 /\ SubSeq(jid, Len(jid), Len(jid)) = <<"@feishu.net">>

\* The keys the router asks about: its own, other channels', malformed ones.
KeyTokens == {"feishu_", "oc_a", "@feishu.net", "@g.us"}
Keys == UNION {[1..n -> KeyTokens] : n \in 0..MaxKeyLen}

\* ------------------------------------------------------------ credential
\* Mutant: > instead of >=.
NeedRefreshLate == tenantToken = NoToken \/ now > tokenExpiry - Margin

\* ensureToken's test: !this.tenantToken || Date.now() >= this.tokenExpiry - 5 min
NeedRefresh == tenantToken = NoToken \/ now >= tokenExpiry - Margin

\* refreshToken, success: the two assignments.  The token string the provider
\* issues is named by the tick it was issued in.
StoreToken(expire) ==
    /\ tenantToken' = now + 1
    /\ tokenExpiry' = now + expire
    /\ lastRefreshOk' = TRUE

\* Mutant: a failed refresh forgets the cached token.
RefreshFailedClears ==
    /\ tenantToken' = NoToken
    /\ tokenExpiry' = 0
    /\ lastRefreshOk' = FALSE

\* refreshToken, catch block: log and rethrow, the fields are not touched.
RefreshFailed ==
    /\ UNCHANGED tokenVars
    /\ lastRefreshOk' = FALSE

\* Requests to the token endpoint that have been sent and not yet answered.
TokenRequestsInFlight ==
    Cardinality({s \in sends : s.pc = "token"})
    + Cardinality({d \in drains : d.pc = "token"})
    + (IF connectPc = "token" THEN 1 ELSE 0)
    + timerRefreshes
    + Cardinality({i \in 1..Len(syncs) : syncs[i].pc = "token"})

NoReturn == [left |-> 0, expire |-> 0, any |-> FALSE]
\* ensureToken returns this.tenantToken: `left` is tokenExpiry - now at that
\* moment, `expire` what the refresh it awaited reported (0: no refresh).
ReturnOf(expiry, expire) == [left |-> expiry - now, expire |-> expire, any |-> TRUE]


\* ------------------------------------------------------------------ Init
NoEvent == [n |-> 0]
NoCall == [called |-> FALSE]

InitAdapter ==
    /\ variant \in Variants
    /\ groups = {ChatJid(<<"oc_a">>)}
    /\ sdkStarted = FALSE
    /\ inflight = {}
    /\ nextEvent = 0
    /\ last = NoEvent
    /\ forwarded = <<>>
    /\ owns = NoCall
    /\ disconnected = FALSE
    /\ keys = <<>>
    /\ now = 0
    /\ connected = FALSE
    /\ server = "null"
    /\ orphanListening = FALSE
    /\ ws = "null"
    /\ reconnectTimer = "null"
    /\ heartbeatTimer = FALSE
    /\ reconnectsArmed = 0
    /\ heartbeatsArmed = 0
    /\ rearmed = [reconnect |-> FALSE, heartbeat |-> FALSE]
    /\ wsClient = FALSE
    /\ tenantToken = NoToken
    /\ tokenExpiry = 0
    /\ outgoingQueue = <<>>
    /\ flushing = FALSE
    /\ connectPc = "idle"
    /\ connectResult = "none"
    /\ connects = 0
    /\ refreshTimers = 0
    /\ timerRefreshes = 0
    /\ sends = {}
    /\ drains = {}
    /\ nextText = 0
    /\ accepted = {}
    /\ queuedOffline = <<>>
    /\ attempts = <<>>
    /\ delivered = {}
    /\ lastReturn = NoReturn
    /\ lastRefreshOk = TRUE
    /\ sendResult = {}
    /\ lastGroupSync = NoSync
    /\ chatNames = {}
    /\ syncs = <<>>

\* The signing secret plays no part in the outbound path.
Init == InitAdapter /\ encryptKey = FALSE

\* FEISHU_ENCRYPT_KEY is optional; only the push variant reads it.
InitIn == InitAdapter /\ encryptKey \in (IF variant = "push" THEN BOOLEAN ELSE {FALSE})

\* ------------------------------------------------------------ the clock
Tick ==
    /\ now < MaxTime
    /\ now' = now + 1
    /\ UNCHANGED <<variant, encryptKey, owns, disconnected, keys, syncVars, inboundVars, lifecycleVars, refreshVars, queueVars, taskVars, historyVars>>

\* ------------------------------------------------- sendMessageToFeishu
\* Where sendMessageToFeishu suspends first: on the token request when
\* ensureToken has to refresh, otherwise on the send request itself.  The sdk
\* variant keeps no token: it goes straight to client.im.message.create.
DeliveryPc == IF variant # "sdk" /\ NeedRefresh THEN "token" ELSE "post"

\* The part of sendMessageToFeishu that runs before its first suspension.
BeginDelivery(item) ==
    /\ attempts' = IF DeliveryPc = "post" THEN Append(attempts, item) ELSE attempts
    /\ lastReturn' = IF DeliveryPc = "post" /\ variant # "sdk"
                     THEN ReturnOf(tokenExpiry, 0)
                     ELSE lastReturn

\* ensureToken resumes after a successful refresh and returns the token,
\* then the send request goes out.
ResumeDelivery(item, expire) ==
    /\ StoreToken(expire)
    /\ lastReturn' = ReturnOf(tokenExpiry', expire)
    /\ attempts' = Append(attempts, item)

\* Mutant: the item is put at the head of the queue.
EnqueueAtHead(item) == outgoingQueue' = <<item>> \o outgoingQueue

\* this.outgoingQueue.push({ chatId: actualChatId, text })
Enqueue(item) == outgoingQueue' = Append(outgoingQueue, item)

\* The promise of the sendMessage call that carries this item settles.
Settle(item, result) ==
    sendResult' = sendResult \cup {[text |-> item.text, result |-> result]}

\* ------------------------------------------------------------ sendMessage
SendMessage(chatId) ==
    /\ nextText < MaxSends
    /\ nextText' = nextText + 1
    /\ keys' = Append(keys, chatId)
    /\ LET item == [chatId |-> ActualChatId(chatId), text |-> nextText + 1] IN
       /\ accepted' = accepted \cup {item}
       /\ IF ~connected \/ (variant = "sdk" /\ ~wsClient)
          THEN /\ Enqueue(item)
               /\ queuedOffline' = Append(queuedOffline, item)
               /\ Settle(item, "resolved")
               /\ UNCHANGED <<sends, attempts, lastReturn>>
          ELSE /\ sends' = sends \cup {[item |-> item, pc |-> DeliveryPc]}
               /\ BeginDelivery(item)
               /\ UNCHANGED <<outgoingQueue, queuedOffline, sendResult>>
    /\ UNCHANGED <<variant, encryptKey, owns, disconnected, syncVars, inboundVars, now, lifecycleVars, refreshVars, flushing,
                   timerRefreshes, drains, delivered>>

\* The token endpoint answers a sendMessage call's refresh with code 0.
SendTokenOk(s, expire) ==
    /\ s \in sends /\ s.pc = "token"
    /\ ResumeDelivery(s.item, expire)
    /\ sends' = (sends \ {s}) \cup {[s EXCEPT !.pc = "post"]}
    /\ UNCHANGED <<variant, encryptKey, owns, disconnected, keys, syncVars, inboundVars, now, lifecycleVars, queueVars, timerRefreshes, drains,
                   nextText, accepted, queuedOffline, delivered, sendResult>>

\* Mutant: the error of the refresh leaves sendMessage.
SendTokenFailRethrows(s) ==
    /\ s \in sends /\ s.pc = "token"
    /\ RefreshFailed
    /\ Settle(s.item, "rejected")
    /\ sends' = sends \ {s}
    /\ UNCHANGED <<variant, encryptKey, owns, disconnected, keys, syncVars, inboundVars, now, lifecycleVars, queueVars, timerRefreshes, drains,
                   nextText, accepted, queuedOffline, attempts, delivered, lastReturn>>

\* The refresh fails: refreshToken rethrows, sendMessage's catch queues the item.
SendTokenFail(s) ==
    /\ s \in sends /\ s.pc = "token"
    /\ RefreshFailed
    /\ Enqueue(s.item)
    /\ Settle(s.item, "resolved")
    /\ sends' = sends \ {s}
    /\ UNCHANGED <<variant, encryptKey, owns, disconnected, keys, syncVars, inboundVars, now, lifecycleVars, flushing, timerRefreshes, drains,
                   nextText, accepted, queuedOffline, attempts, delivered, lastReturn>>

\* The send request is answered ok with code 0.
SendPostOk(s) ==
    /\ s \in sends /\ s.pc = "post"
    /\ delivered' = delivered \cup {s.item}
    /\ Settle(s.item, "resolved")
    /\ sends' = sends \ {s}
    /\ UNCHANGED <<variant, encryptKey, owns, disconnected, keys, syncVars, inboundVars, now, lifecycleVars, refreshVars, queueVars, timerRefreshes,
                   drains, nextText, accepted, queuedOffline, attempts, lastReturn>>

\* sdk: client.im.message.create resolves with a body whose code is not 0 (the
\* request was answered 200).  sendMessageToFeishu does not look at what create
\* resolves with: it returns normally and sendMessage logs the message as sent.
SendCreateRefused(s) ==
    /\ variant = "sdk"
    /\ s \in sends /\ s.pc = "post"
    /\ Settle(s.item, "resolved")
    /\ sends' = sends \ {s}
    /\ UNCHANGED <<variant, encryptKey, owns, disconnected, keys, syncVars, inboundVars, now, lifecycleVars, refreshVars, queueVars, timerRefreshes,
                   drains, nextText, accepted, queuedOffline, attempts, delivered, lastReturn>>

\* The send request fails (network error, !response.ok, code !== 0): catch queues.
SendPostFail(s) ==
    /\ s \in sends /\ s.pc = "post"
    /\ Enqueue(s.item)
    /\ Settle(s.item, "resolved")
    /\ sends' = sends \ {s}
    /\ UNCHANGED <<variant, encryptKey, owns, disconnected, keys, syncVars, inboundVars, now, lifecycleVars, refreshVars, flushing, timerRefreshes,
                   drains, nextText, accepted, queuedOffline, attempts, delivered, lastReturn>>

\* ---------------------------------------------------- flushOutgoingQueue
\* No line of src/ calls flushOutgoingQueue.  The drain is "triggered after
\* reconnect" (spec.md 4.5): the trigger is taken whenever the adapter is connected.
DrainTrigger == connected

\* Mutant: the flag is not tested.
FlushReturnsAtOnceNoFlag == Len(outgoingQueue) = 0

\* if (this.flushing || this.outgoingQueue.length === 0) return;
FlushReturnsAtOnce == flushing \/ Len(outgoingQueue) = 0

\* Mutant: the item is taken from the tail (pop).
Pop(q) == [item |-> q[Len(q)], rest |-> SubSeq(q, 1, Len(q) - 1)]

\* const item = this.outgoingQueue.shift()!
Shift(q) == [item |-> Head(q), rest |-> Tail(q)]

\* flushOutgoingQueue up to its first suspension.  With the flag set or the
\* queue empty it returns at once and changes nothing.
FlushOutgoingQueue ==
    /\ DrainTrigger
    /\ ~FlushReturnsAtOnce
    /\ flushing' = TRUE
    /\ LET item == Shift(outgoingQueue).item IN
       /\ outgoingQueue' = Shift(outgoingQueue).rest
       /\ drains' = drains \cup {[item |-> item, pc |-> DeliveryPc]}
       /\ BeginDelivery(item)
    /\ UNCHANGED <<variant, encryptKey, owns, disconnected, keys, syncVars, inboundVars, now, lifecycleVars, refreshVars, timerRefreshes, sends,
                   nextText, accepted, queuedOffline, delivered, sendResult>>

DrainTokenOk(d, expire) ==
    /\ d \in drains /\ d.pc = "token"
    /\ ResumeDelivery(d.item, expire)
    /\ drains' = (drains \ {d}) \cup {[d EXCEPT !.pc = "post"]}
    /\ UNCHANGED <<variant, encryptKey, owns, disconnected, keys, syncVars, inboundVars, now, lifecycleVars, queueVars, timerRefreshes, sends,
                   nextText, accepted, queuedOffline, delivered, sendResult>>

\* Mutant: no finally, the flag stays set when the delivery throws.
DrainThrowsKeepsFlag(d) ==
    /\ flushing' = flushing
    /\ drains' = drains \ {d}
    /\ UNCHANGED outgoingQueue

\* sendMessageToFeishu throws inside the loop: finally resets the flag, the
\* exception leaves flushOutgoingQueue, the shifted item is in no queue.
DrainThrows(d) ==
    /\ flushing' = FALSE
    /\ drains' = drains \ {d}
    /\ UNCHANGED outgoingQueue

DrainTokenFail(d) ==
    /\ d \in drains /\ d.pc = "token"
    /\ RefreshFailed
    /\ DrainThrows(d)
    /\ UNCHANGED <<variant, encryptKey, owns, disconnected, keys, syncVars, inboundVars, now, lifecycleVars, timerRefreshes, sends, nextText,
                   historyVars>>

DrainPostFail(d) ==
    /\ d \in drains /\ d.pc = "post"
    /\ DrainThrows(d)
    /\ UNCHANGED <<variant, encryptKey, owns, disconnected, keys, syncVars, inboundVars, now, lifecycleVars, refreshVars, timerRefreshes, sends,
                   nextText, historyVars>>

\* sendMessageToFeishu returns normally inside the loop: the loop tests the
\* queue again and either shifts the next item or leaves through finally.
DrainContinue(d) ==
    /\ d \in drains /\ d.pc = "post"
    /\ IF Len(outgoingQueue) > 0
       THEN LET item == Shift(outgoingQueue).item IN
            /\ outgoingQueue' = Shift(outgoingQueue).rest
            /\ drains' = (drains \ {d}) \cup {[item |-> item, pc |-> DeliveryPc]}
            /\ BeginDelivery(item)
            /\ UNCHANGED flushing
       ELSE /\ flushing' = FALSE
            /\ drains' = drains \ {d}
            /\ UNCHANGED <<outgoingQueue, attempts, lastReturn>>
    /\ UNCHANGED <<variant, encryptKey, owns, disconnected, keys, syncVars, inboundVars, now, lifecycleVars, refreshVars, timerRefreshes, sends,
                   nextText, accepted, queuedOffline, sendResult>>

\* The send request of the drain is answered ok with code 0.
DrainPostOk(d) ==
    /\ DrainContinue(d)
    /\ delivered' = delivered \cup {d.item}

\* sdk: create resolves, inside the loop, with a body whose code is not 0.
DrainCreateRefused(d) ==
    /\ variant = "sdk"
    /\ DrainContinue(d)
    /\ UNCHANGED delivered

\* ------------------------------------------------- the token refresh timer
\* setInterval(() => this.refreshToken().catch(log), refreshInterval): the interval
\* is at least one tick; a fire is taken while the previous one is not pending.
TimerFire ==
    /\ refreshTimers > 0
    /\ timerRefreshes = 0
    /\ timerRefreshes' = timerRefreshes + 1
    /\ UNCHANGED <<variant, encryptKey, owns, disconnected, keys, syncVars, inboundVars, now, lifecycleVars, refreshVars, queueVars, sends, drains,
                   nextText, historyVars>>

TimerTokenOk(expire) ==
    /\ timerRefreshes > 0
    /\ StoreToken(expire)
    /\ timerRefreshes' = timerRefreshes - 1
    /\ UNCHANGED <<variant, encryptKey, owns, disconnected, keys, syncVars, inboundVars, now, lifecycleVars, queueVars, sends, drains, nextText,
                   historyVars>>

TimerTokenFail ==
    /\ timerRefreshes > 0
    /\ RefreshFailed
    /\ timerRefreshes' = timerRefreshes - 1
    /\ UNCHANGED <<variant, encryptKey, owns, disconnected, keys, syncVars, inboundVars, now, lifecycleVars, queueVars, sends, drains, nextText,
                   historyVars>>

\* ---------------------------------------------------------------- connect
\* connect() is called (one call at a time).  push, pull: it suspends in
\* refreshToken.  sdk: it creates the WSClient and suspends in wsClient.start.
ConnectCallUpTo(limit) ==
    /\ connectPc = "idle"
    /\ connects < limit
    /\ connects' = connects + 1
    /\ disconnected' = FALSE
    /\ connectResult' = "pending"
    /\ IF variant = "sdk"
       THEN /\ wsClient' = TRUE
            /\ connectPc' = "start"
       ELSE /\ connectPc' = "token"
            /\ UNCHANGED wsClient
    /\ UNCHANGED <<variant, encryptKey, owns, keys, syncVars, inboundVars, sdkStarted, now, connected, server, orphanListening, ws, reconnectTimer, timerVars,
                   heartbeatTimer, refreshTimers, refreshVars, queueVars, taskVars,
                   historyVars>>

ConnectCall == ConnectCallUpTo(MaxConnects)

\* The initial token fetch fails: connect() rejects, nothing else has run.
ConnectTokenFail ==
    /\ connectPc = "token"
    /\ RefreshFailed
    /\ connectPc' = "idle"
    /\ connectResult' = "rejected"
    /\ UNCHANGED <<variant, encryptKey, owns, disconnected, keys, syncVars, inboundVars, sdkStarted, now, connected, server, orphanListening, ws, reconnectTimer, timerVars,
                   heartbeatTimer, wsClient, connects, refreshTimers, queueVars,
                   taskVars, historyVars>>

\* Whether the webhook port is held by a server of this adapter.
PortHeld == server = "listening" \/ orphanListening

\* push: the token arrives, startWebhookServer binds the port (the listening
\* callback follows the bind without another event in between), the refresh
\* timer is set and connected becomes true.
ConnectListening(expire) ==
    /\ variant = "push"
    /\ connectPc = "token"
    /\ ~PortHeld
    /\ StoreToken(expire)
    /\ server' = "listening"
    /\ refreshTimers' = refreshTimers + 1
    /\ connected' = TRUE
    /\ connectPc' = "idle"
    /\ connectResult' = "resolved"
    /\ UNCHANGED <<variant, encryptKey, owns, disconnected, keys, syncVars, inboundVars, sdkStarted, now, orphanListening, ws, reconnectTimer, timerVars, heartbeatTimer,
                   wsClient, connects, queueVars, taskVars, historyVars>>

\* push: the token arrives but the server emits 'error' (port in use):
\* startWebhookServer rejects and connect() with it.  this.server is the new
\* server; one that was listening stays bound, unreferenced.
ConnectListenError(expire) ==
    /\ variant = "push"
    /\ connectPc = "token"
    /\ StoreToken(expire)
    /\ server' = "failed"
    /\ orphanListening' = PortHeld
    /\ connectPc' = "idle"
    /\ connectResult' = "rejected"
    /\ UNCHANGED <<variant, encryptKey, owns, disconnected, keys, syncVars, inboundVars, sdkStarted, now, connected, ws, reconnectTimer, timerVars, heartbeatTimer,
                   wsClient, connects, refreshTimers, queueVars, taskVars, historyVars>>

\* pull: connectWebSocket(): the previous socket loses its listeners and is
\* closed, a new one is created and is connecting.
ConnectWebSocket == ws' = "connecting"

\* pull: the token arrives, connectWebSocket() runs, the refresh timer is set and
\* connect() resolves; connected is left to the socket's open handler.
ConnectSocket(expire) ==
    /\ variant = "pull"
    /\ connectPc = "token"
    /\ StoreToken(expire)
    /\ ConnectWebSocket
    /\ refreshTimers' = refreshTimers + 1
    /\ connectPc' = "idle"
    /\ connectResult' = "resolved"
    /\ UNCHANGED <<variant, encryptKey, owns, disconnected, keys, syncVars, inboundVars, sdkStarted, now, connected, server, orphanListening, reconnectTimer, timerVars,
                   heartbeatTimer, wsClient, connects, queueVars, taskVars, historyVars>>

\* sdk: wsClient.start resolves.
ConnectStarted ==
    /\ variant = "sdk"
    /\ connectPc = "start"
    /\ connected' = TRUE
    /\ sdkStarted' = TRUE
    /\ connectPc' = "idle"
    /\ connectResult' = "resolved"
    /\ UNCHANGED <<variant, encryptKey, owns, disconnected, keys, syncVars, inboundVars, now, server, orphanListening, ws, reconnectTimer, timerVars,
                   heartbeatTimer, wsClient, connects, refreshTimers, refreshVars,
                   queueVars, taskVars, historyVars>>

\* sdk: wsClient.start throws: logged and rethrown.
ConnectStartFail ==
    /\ variant = "sdk"
    /\ connectPc = "start"
    /\ connectPc' = "idle"
    /\ connectResult' = "rejected"
    /\ UNCHANGED <<variant, encryptKey, owns, disconnected, keys, syncVars, inboundVars, sdkStarted, now, connected, server, orphanListening, ws, reconnectTimer, timerVars,
                   heartbeatTimer, wsClient, connects, refreshTimers, refreshVars,
                   queueVars, taskVars, historyVars>>

\* ------------------------------------------------------ pull: the timers
\* stopHeartbeat(): the interval the field holds is cleared.
StopHeartbeat ==
    /\ heartbeatTimer' = FALSE
    /\ heartbeatsArmed' = IF heartbeatTimer THEN heartbeatsArmed - 1 ELSE heartbeatsArmed

\* Mutant: the interval is set without clearing the one the field holds.
StartHeartbeatNoStop ==
    /\ heartbeatTimer' = TRUE
    /\ heartbeatsArmed' = heartbeatsArmed + 1
    /\ rearmed' = [rearmed EXCEPT !.heartbeat = @ \/ heartbeatTimer]

\* startHeartbeat(): stopHeartbeat(), then setInterval.
StartHeartbeat ==
    /\ heartbeatTimer' = TRUE
    /\ heartbeatsArmed' = (IF heartbeatTimer THEN heartbeatsArmed - 1 ELSE heartbeatsArmed) + 1
    /\ rearmed' = [rearmed EXCEPT !.heartbeat = @ \/ heartbeatTimer]

\* clearTimeout(this.reconnectTimer): an armed timer is cancelled, the handle
\* of one that has fired is ignored.
AfterClearTimeout ==
    IF reconnectTimer = "pending" THEN reconnectsArmed - 1 ELSE reconnectsArmed

\* Mutant: the timer is set without clearing the one the field holds.
ScheduleReconnectNoClear ==
    /\ reconnectTimer' = "pending"
    /\ reconnectsArmed' = reconnectsArmed + 1
    /\ rearmed' = [rearmed EXCEPT !.reconnect = @ \/ reconnectTimer = "pending"]

\* scheduleReconnect(): the timer the field holds, if any, is cleared and a new
\* one set.
ScheduleReconnect ==
    /\ reconnectTimer' = "pending"
    /\ reconnectsArmed' = AfterClearTimeout + 1
    /\ rearmed' = [rearmed EXCEPT !.reconnect = @ \/ reconnectTimer = "pending"]

\* ------------------------------------------------------------- disconnect
\* Mutant: disconnect() also empties the outbound queue.
DisconnectClearsQueue ==
    /\ connected' = FALSE
    /\ disconnected' = TRUE
    /\ server' = IF variant = "push" /\ server = "listening" THEN "closed" ELSE server
    /\ StopHeartbeat
    /\ reconnectTimer' = "null"
    /\ reconnectsArmed' = AfterClearTimeout
    /\ ws' = "null"
    /\ wsClient' = FALSE
    /\ outgoingQueue' = <<>>
    /\ UNCHANGED <<variant, encryptKey, owns, keys, syncVars, inboundVars, sdkStarted, now,
                   orphanListening, rearmed, connectPc, connectResult, connects,
                   refreshTimers, refreshVars, flushing, taskVars, historyVars>>

Disconnect ==
    /\ connected' = FALSE
    /\ disconnected' = TRUE
    /\ server' = IF variant = "push" /\ server = "listening" THEN "closed" ELSE server
    /\ StopHeartbeat
    /\ reconnectTimer' = "null"
    /\ reconnectsArmed' = AfterClearTimeout
    /\ ws' = "null"
    /\ wsClient' = FALSE
    /\ UNCHANGED <<variant, encryptKey, owns, keys, syncVars, inboundVars, sdkStarted, now, orphanListening, rearmed, connectPc, connectResult, connects,
                   refreshTimers, refreshVars, queueVars, taskVars, historyVars>>

\* ------------------------------------------------- pull: socket events
\* ws.on('open')
WsOpen ==
    /\ variant = "pull"
    /\ ws = "connecting"
    /\ ws' = "open"
    /\ connected' = TRUE
    /\ StartHeartbeat
    /\ UNCHANGED <<variant, encryptKey, owns, disconnected, keys, syncVars, inboundVars, sdkStarted, now, server, orphanListening, reconnectTimer,
                   reconnectsArmed, wsClient,
                   connectPc, connectResult, connects, refreshTimers, refreshVars,
                   queueVars, taskVars, historyVars>>

\* ws.on('error'): the handler logs and nothing else.  The socket that emitted
\* the error is closing; its 'close' event follows.
WsError ==
    /\ variant = "pull"
    /\ ws \in {"connecting", "open"}
    /\ ws' = "closing"
    /\ UNCHANGED <<variant, encryptKey, owns, disconnected, keys, syncVars, inboundVars, sdkStarted, now, connected, server, orphanListening,
                   reconnectTimer, timerVars, heartbeatTimer, wsClient, connectPc, connectResult,
                   connects, refreshTimers, refreshVars, queueVars, taskVars, historyVars>>

\* ws.on('close')
WsClose ==
    /\ variant = "pull"
    /\ ws \in {"connecting", "open", "closing"}
    /\ ws' = "closed"
    /\ connected' = FALSE
    /\ StopHeartbeat
    /\ ScheduleReconnect
    /\ UNCHANGED <<variant, encryptKey, owns, disconnected, keys, syncVars, inboundVars, sdkStarted, now, server, orphanListening, wsClient, connectPc,
                   connectResult, connects, refreshTimers, refreshVars, queueVars,
                   taskVars, historyVars>>

\* Mutant: the timer's callback does not connect.
ReconnectFireIdle ==
    /\ variant = "pull"
    /\ reconnectTimer = "pending"
    /\ reconnectTimer' = "fired"
    /\ reconnectsArmed' = reconnectsArmed - 1
    /\ UNCHANGED <<variant, encryptKey, owns, disconnected, keys, syncVars, inboundVars, sdkStarted, now, connected,
                   server, orphanListening, ws, heartbeatTimer, heartbeatsArmed, rearmed,
                   wsClient, connectPc, connectResult, connects, refreshTimers,
                   refreshVars, queueVars, taskVars, historyVars>>

\* The reconnect timer fires: connectWebSocket().  The field keeps the handle.
ReconnectFire ==
    /\ variant = "pull"
    /\ reconnectTimer = "pending"
    /\ reconnectTimer' = "fired"
    /\ reconnectsArmed' = reconnectsArmed - 1
    /\ ConnectWebSocket
    /\ UNCHANGED <<variant, encryptKey, owns, disconnected, keys, syncVars, inboundVars, sdkStarted, now, connected, server, orphanListening, heartbeatTimer,
                   heartbeatsArmed, rearmed,
                   wsClient, connectPc, connectResult, connects, refreshTimers,
                   refreshVars, queueVars, taskVars, historyVars>>

\* ====================================================== syncGroupMetadata
B == <<"oc_b">>

\* What the chat listing answers with: items with a chat_id, with or without a name.
ListedChats ==
    { <<>>,
      <<[chatId |-> <<"oc_a">>, named |-> TRUE]>>,
      <<[chatId |-> <<"oc_a">>, named |-> TRUE], [chatId |-> B, named |-> FALSE]>>,
      <<[chatId |-> <<"oc_a">>, named |-> TRUE], [chatId |-> B, named |-> TRUE]>> }

\* What the provider holds on the pages after the first: the answer carries
\* has_more and a page_token, which the code does not read.
FurtherPages == {<<>>, <<[chatId |-> B, named |-> TRUE]>>}

\* The chat keys updateChatName is called with for the first k items.
NamesWritten(items, k) ==
    {ChatJid(items[i].chatId) : i \in {j \in 1..k : items[j].named}}

\* Mutant: the comparison with the interval is turned round.
SyncSkipsWhenStale(force) ==
    ~force /\ lastGroupSync # NoSync /\ now - lastGroupSync > SyncInterval

\* The rate limit: not forced, a cursor exists and is younger than the interval.
SyncSkips(force) ==
    ~force /\ lastGroupSync # NoSync /\ now - lastGroupSync < SyncInterval

\* Where a sync that proceeds suspends first: push and pull in ensureToken's
\* refresh when one is due, otherwise (and sdk always) in the listing call.
SyncPc == IF variant # "sdk" /\ NeedRefresh THEN "token" ELSE "list"

\* syncGroupMetadata(force) is called and runs up to its first suspension.
\* `listing` tells what became of its listing call, `prior` where the earlier
\* calls stood when this one started.
SyncGroupMetadata(force) ==
    /\ Len(syncs) < MaxSyncs
    /\ LET pc == IF SyncSkips(force) THEN "skipped" ELSE SyncPc IN
       /\ syncs' = Append(syncs,
              [force |-> force, at |-> now, pc |-> pc,
               listing |-> IF pc = "list" THEN "sent" ELSE "none",
               items |-> <<>>, unread |-> <<>>,
               prior |-> [k \in 1..Len(syncs) |-> syncs[k].pc]])
       /\ lastReturn' = IF pc = "list" /\ variant # "sdk"
                        THEN ReturnOf(tokenExpiry, 0) ELSE lastReturn
    /\ UNCHANGED <<variant, encryptKey, owns, disconnected, keys, lastGroupSync, chatNames, inboundVars, now, lifecycleVars, refreshVars,
                   queueVars, taskVars, accepted, queuedOffline, attempts, delivered,
                   sendResult>>

\* The refresh of a sync succeeds: ensureToken returns, the listing goes out.
SyncTokenOk(i, expire) ==
    /\ i \in 1..Len(syncs) /\ syncs[i].pc = "token"
    /\ StoreToken(expire)
    /\ lastReturn' = ReturnOf(tokenExpiry', expire)
    /\ syncs' = [syncs EXCEPT ![i].pc = "list", ![i].listing = "sent"]
    /\ UNCHANGED <<variant, encryptKey, owns, disconnected, keys, lastGroupSync, chatNames, inboundVars, now, lifecycleVars,
                   queueVars, taskVars, accepted, queuedOffline, attempts, delivered,
                   sendResult>>

\* The refresh of a sync fails: the catch logs, the call resolves.
SyncTokenFail(i) ==
    /\ i \in 1..Len(syncs) /\ syncs[i].pc = "token"
    /\ RefreshFailed
    /\ syncs' = [syncs EXCEPT ![i].pc = "failed"]
    /\ UNCHANGED <<variant, encryptKey, owns, disconnected, keys, lastGroupSync, chatNames, inboundVars, now, lifecycleVars,
                   queueVars, taskVars, historyVars>>

\* The listing is answered ok with code 0, `items` on the page returned and
\* `more` on the pages behind it.  Every named chat of the page is written, no
\* further page is asked for: setLastGroupSync().
SyncListed(i, items, more) ==
    /\ i \in 1..Len(syncs) /\ syncs[i].pc = "list"
    /\ chatNames' = chatNames \cup NamesWritten(items, Len(items))
    /\ lastGroupSync' = now
    /\ syncs' = [syncs EXCEPT ![i].pc = "ok", ![i].listing = "ok", ![i].items = items,
                              ![i].unread = more]
    /\ UNCHANGED <<variant, encryptKey, owns, disconnected, keys, inboundVars, now, lifecycleVars, refreshVars,
                   queueVars, taskVars, historyVars>>

\* The listing fails (network error, !response.ok, code !== 0; sdk: the
\* client throws): the catch logs, the call resolves.
SyncListFail(i) ==
    /\ i \in 1..Len(syncs) /\ syncs[i].pc = "list"
    /\ syncs' = [syncs EXCEPT ![i].pc = "failed", ![i].listing = "failed"]
    /\ UNCHANGED <<variant, encryptKey, owns, disconnected, keys, lastGroupSync, chatNames, inboundVars, now, lifecycleVars, refreshVars,
                   queueVars, taskVars, historyVars>>

\* updateChatName throws at the k-th item: the names before it are written.
SyncWriteFail(i, items, k) ==
    /\ i \in 1..Len(syncs) /\ syncs[i].pc = "list"
    /\ k \in 1..Len(items) /\ items[k].named
    /\ chatNames' = chatNames \cup NamesWritten(items, k - 1)
    /\ syncs' = [syncs EXCEPT ![i].pc = "failed", ![i].listing = "ok", ![i].items = items]
    /\ UNCHANGED <<variant, encryptKey, owns, disconnected, keys, lastGroupSync, inboundVars, now, lifecycleVars, refreshVars,
                   queueVars, taskVars, historyVars>>

\* sdk: client.im.chat.list resolves with a body whose code is not 0.  The code
\* reads resp.items, finds none, and calls setLastGroupSync().
SyncListRefused(i) ==
    /\ variant = "sdk"
    /\ i \in 1..Len(syncs) /\ syncs[i].pc = "list"
    /\ lastGroupSync' = now
    /\ syncs' = [syncs EXCEPT ![i].pc = "ok", ![i].listing = "failed"]
    /\ UNCHANGED <<variant, encryptKey, owns, disconnected, keys, chatNames, inboundVars, now, lifecycleVars, refreshVars,
                   queueVars, taskVars, historyVars>>

\* The sync interval passes.
DayPasses ==
    /\ now <= MaxTime
    /\ now' = now + SyncInterval
    /\ UNCHANGED <<variant, encryptKey, owns, disconnected, keys, syncVars, inboundVars, lifecycleVars, refreshVars, queueVars, taskVars, historyVars>>

\* ================================================================ inbound
\* An inbound request (push), frame (pull) or event (sdk), by what the code
\* tests of it.  sig: the x-lark-signature header against the HMAC-SHA256 of the
\* body.  messageId: event.message.message_id, which names the event.
\* json: JSON.parse(body) succeeds.  kind: "challenge" is
\* payload.type === 'url_verification', "event" a schema 2.0 payload with header
\* and event.  timeOk: parseInt(message.create_time) is a valid Date (otherwise
\* toISOString throws).  contentOk: JSON.parse(message.content) succeeds.
Good(c) ==
    [path |-> "/webhook/feishu", method |-> "POST", sig |-> "valid", json |-> TRUE,
     kind |-> "event", challenge |-> "abc123", tokenOk |-> TRUE,
     eventType |-> "im.message.receive_v1", senderType |-> "user", chatId |-> c,
     contentOk |-> TRUE, timeOk |-> TRUE, messageId |-> 1]

A == <<"oc_a">>

\* The message ids the provider hands out.
MessageIds == 1..MaxMessageIds

\* Message events: every sender, chat, content, timestamp and message id.
MessageInputs ==
    {[Good(c) EXCEPT !.senderType = st, !.contentOk = co, !.timeOk = ti,
                     !.messageId = m] :
        c \in ChatIds, st \in {"user", "app"}, co \in BOOLEAN, ti \in BOOLEAN,
        m \in MessageIds}

ChallengeInputs ==
    {[Good(A) EXCEPT !.kind = "challenge", !.challenge = ch, !.sig = sg] :
        ch \in {"abc123", "undefined"}, sg \in {"valid", "invalid"}}

\* push: the message events and, around a good one, one failing check each.
WebhookInputs ==
    MessageInputs \cup ChallengeInputs \cup
    {[Good(A) EXCEPT !.path = "/other"], [Good(A) EXCEPT !.method = "GET"],
     [Good(A) EXCEPT !.sig = "invalid"], [Good(A) EXCEPT !.sig = "missing"],
     [Good(A) EXCEPT !.json = FALSE], [Good(A) EXCEPT !.kind = "other"],
     [Good(A) EXCEPT !.tokenOk = FALSE],
     [Good(A) EXCEPT !.eventType = "im.chat.updated_v1"]}

\* push: every combination of what the handler tests before it answers.
DecisionInputs ==
    {[Good(A) EXCEPT !.path = p, !.method = m, !.sig = sg, !.json = j, !.kind = k,
                     !.tokenOk = t] :
        p \in {"/webhook/feishu", "/other"}, m \in {"POST", "GET"},
        sg \in {"valid", "invalid", "missing"}, j \in BOOLEAN,
        k \in {"challenge", "event", "other"}, t \in BOOLEAN}

\* pull: frames on the socket.
FrameInputs ==
    MessageInputs \cup {r \in ChallengeInputs : r.sig = "valid"} \cup
    {[Good(A) EXCEPT !.json = FALSE], [Good(A) EXCEPT !.kind = "other"]}

\* sdk: the dispatcher hands over im.message.receive_v1 events only.
EventInputs == MessageInputs

\* Mutant: the challenge is sent back bare, not inside an object.
StringifyChallengeBare(c) == <<c>>

\* JSON.stringify({ challenge: c }): an undefined member is left out.
StringifyChallenge(c) ==
    IF c = "undefined" THEN <<"{", "}">>
    ELSE <<"{", "\"challenge\"", ":", "\"" \o c \o "\"", "}">>

\* Mutant: only the presence of the signature header is tested.
SignatureOkIfPresent(req) == req.sig # "missing"

\* verifySignature, and the !signature test before it.
SignatureOk(req) == req.sig # "missing" /\ req.sig = "valid"

Reply(status, body, process) == [status |-> status, body |-> body, process |-> process]

\* Mutant: the verification token of an event is not compared.
WebhookResponseNoTokenCheck(req) ==
    IF req.path # "/webhook/feishu" THEN Reply(404, <<"Not Found">>, FALSE)
    ELSE IF req.method # "POST" THEN Reply(405, <<"Method Not Allowed">>, FALSE)
    ELSE IF encryptKey /\ ~SignatureOk(req) THEN Reply(401, <<"Unauthorized">>, FALSE)
    ELSE IF ~req.json THEN Reply(400, <<"Bad Request">>, FALSE)
    ELSE IF req.kind = "challenge"
         THEN Reply(200, StringifyChallenge(req.challenge), FALSE)
    ELSE IF req.kind = "event" THEN Reply(200, <<"OK">>, TRUE)
    ELSE Reply(400, <<"Bad Request">>, FALSE)

\* Mutant: the body is parsed before the signature is checked.
WebhookResponseJsonFirst(req) ==
    IF req.path # "/webhook/feishu" THEN Reply(404, <<"Not Found">>, FALSE)
    ELSE IF req.method # "POST" THEN Reply(405, <<"Method Not Allowed">>, FALSE)
    ELSE IF ~req.json THEN Reply(400, <<"Bad Request">>, FALSE)
    ELSE IF encryptKey /\ ~SignatureOk(req) THEN Reply(401, <<"Unauthorized">>, FALSE)
    ELSE IF req.kind = "challenge"
         THEN Reply(200, StringifyChallenge(req.challenge), FALSE)
    ELSE IF req.kind = "event"
         THEN IF ~req.tokenOk THEN Reply(401, <<"Unauthorized">>, FALSE)
              ELSE Reply(200, <<"OK">>, TRUE)
    ELSE Reply(400, <<"Bad Request">>, FALSE)

\* handleWebhookRequest: the response, and whether processEvent is called.
WebhookResponse(req) ==
    IF req.path # "/webhook/feishu" THEN Reply(404, <<"Not Found">>, FALSE)
    ELSE IF req.method # "POST" THEN Reply(405, <<"Method Not Allowed">>, FALSE)
    ELSE IF encryptKey /\ ~SignatureOk(req) THEN Reply(401, <<"Unauthorized">>, FALSE)
    ELSE IF ~req.json THEN Reply(400, <<"Bad Request">>, FALSE)
    ELSE IF req.kind = "challenge"
         THEN Reply(200, StringifyChallenge(req.challenge), FALSE)
    ELSE IF req.kind = "event"
         THEN IF ~req.tokenOk THEN Reply(401, <<"Unauthorized">>, FALSE)
              ELSE Reply(200, <<"OK">>, TRUE)
    ELSE Reply(400, <<"Bad Request">>, FALSE)

\* The checks handleWebhookRequest makes before it reads the body.
EarlyReject(req) == req.path # "/webhook/feishu" \/ req.method # "POST"

Call(fn, chatJid) == [fn |-> fn, chatJid |-> chatJid]

\* The registration test.  The sdk variant logs "processing anyway" and goes on.
DropUnregistered(chatJid) == variant # "sdk" /\ chatJid \notin groups

\* Mutant: the self-sender test is missing.
HandleMessageEventNoSelfCheck(req) ==
    IF ~req.timeOk THEN <<>>
    ELSE LET chatJid == ChatJid(req.chatId) IN
         <<Call("onChatMetadata", chatJid), Call("registeredGroups", <<>>)>> \o
         (IF DropUnregistered(chatJid) THEN <<>>
          ELSE IF ~req.contentOk THEN <<>>
          ELSE <<Call("onMessage", chatJid)>>)

\* Mutant: onChatMetadata is called after the registration test, not before.
HandleMessageEventGateFirst(req) ==
    IF req.senderType = "app" THEN <<>>
    ELSE IF ~req.timeOk THEN <<>>
    ELSE LET chatJid == ChatJid(req.chatId) IN
         <<Call("registeredGroups", <<>>)>> \o
         (IF DropUnregistered(chatJid) THEN <<>>
          ELSE <<Call("onChatMetadata", chatJid)>> \o
               (IF ~req.contentOk THEN <<>> ELSE <<Call("onMessage", chatJid)>>))

\* Mutant: the self-sender test is made after the registration test.
HandleMessageEventSelfCheckLate(req) ==
    IF ~req.timeOk THEN <<>>
    ELSE LET chatJid == ChatJid(req.chatId) IN
         <<Call("onChatMetadata", chatJid), Call("registeredGroups", <<>>)>> \o
         (IF DropUnregistered(chatJid) THEN <<>>
          ELSE IF req.senderType = "app" THEN <<>>
          ELSE IF ~req.contentOk THEN <<>>
          ELSE <<Call("onMessage", chatJid)>>)

\* Mutant: the forwarding call is made twice.
HandleMessageEventForwardsTwice(req) ==
    IF req.senderType = "app" THEN <<>>
    ELSE IF ~req.timeOk THEN <<>>
    ELSE LET chatJid == ChatJid(req.chatId) IN
         <<Call("onChatMetadata", chatJid), Call("registeredGroups", <<>>)>> \o
         (IF DropUnregistered(chatJid) THEN <<>>
          ELSE IF ~req.contentOk THEN <<>>
          ELSE <<Call("onMessage", chatJid), Call("onMessage", chatJid)>>)

\* handleMessageEvent: the callbacks it invokes, in order.  An invalid
\* create_time makes toISOString throw before any callback; the caller logs it.
HandleMessageEvent(req) ==
    IF req.senderType = "app" THEN <<>>
    ELSE IF ~req.timeOk THEN <<>>
    ELSE LET chatJid == ChatJid(req.chatId) IN
         <<Call("onChatMetadata", chatJid), Call("registeredGroups", <<>>)>> \o
         (IF DropUnregistered(chatJid) THEN <<>>
          ELSE IF ~req.contentOk THEN <<>>
          ELSE <<Call("onMessage", chatJid)>>)

\* processEvent (push)
ProcessEvent(req) ==
    IF req.eventType = "im.message.receive_v1" THEN HandleMessageEvent(req) ELSE <<>>

\* Mutant: JSON.parse(message.content) stands outside a try block.
HandleMessageEventThrowsOnContent(req) ==
    req.senderType # "app" /\
        (~req.timeOk \/ (~DropUnregistered(ChatJid(req.chatId)) /\ ~req.contentOk))

\* handleMessageEvent throws: new Date(NaN).toISOString() is a RangeError.  The
\* parse of the content has its own try/catch, which logs and returns.
HandleMessageEventThrows(req) == req.senderType # "app" /\ ~req.timeOk

\* The promise of processEvent rejects.
ProcessEventThrows(req) ==
    req.eventType = "im.message.receive_v1" /\ HandleMessageEventThrows(req)

\* res.end(...), as one of the effects of the handler.
Respond == Call("res.end", <<>>)

\* How an input was handled: the response, what the handler did in program
\* order, and whether the processing raised an exception.
Outcome(reply, effects, threw) ==
    [status |-> reply.status, body |-> reply.body, process |-> reply.process,
     effects |-> effects, threw |-> threw]

\* Mutant: the event is processed before the response is written, and an
\* exception of the processing reaches the listener's catch (500).
WebhookOutcomeProcessFirst(req) ==
    LET reply == WebhookResponse(req)
        threw == reply.process /\ ProcessEventThrows(req) IN
    Outcome(IF threw THEN Reply(500, <<"Internal Server Error">>, TRUE) ELSE reply,
            (IF reply.process THEN ProcessEvent(req) ELSE <<>>) \o <<Respond>>,
            threw)

\* push, handleWebhookRequest: res.end is called, then processEvent, which runs
\* handleMessageEvent to its end before it suspends; its rejection is logged.
WebhookOutcome(req) ==
    LET reply == WebhookResponse(req) IN
    Outcome(reply,
            <<Respond>> \o (IF reply.process THEN ProcessEvent(req) ELSE <<>>),
            reply.process /\ ProcessEventThrows(req))

\* What a handled request leaves behind: the request, the response, the
\* effects and among them the callbacks made, and whether its chat was
\* registered when it was handled.
Handled(n, req, out) ==
    [n |-> n, req |-> req, status |-> out.status, body |-> out.body,
     effects |-> out.effects,
     calls |-> SelectSeq(out.effects, LAMBDA c : c.fn # "res.end"),
     threw |-> out.threw, normalized |-> out.process,
     registered |-> ChatJid(req.chatId) \in groups]

\* opts.onMessage(chatJid, { id: message.message_id, ... }): the calls made so
\* far, each with the message id it carried and what isConnected() returned.
Forward(req, out) ==
    IF \E k \in 1..Len(out.effects) : out.effects[k].fn = "onMessage"
    THEN Append(forwarded, [id |-> req.messageId, chatJid |-> ChatJid(req.chatId),
                            connected |-> connected])
    ELSE forwarded

\* push: a request reaches the listener.  Path and method are tested at once;
\* otherwise the handler suspends reading the body.
WebhookRequest(req) ==
    /\ variant = "push"
    /\ PortHeld
    /\ nextEvent < MaxEvents
    /\ nextEvent' = nextEvent + 1
    /\ IF EarlyReject(req)
       THEN /\ last' = Handled(nextEvent + 1, req, WebhookOutcome(req))
            /\ forwarded' = Forward(req, WebhookOutcome(req))
            /\ UNCHANGED inflight
       ELSE /\ inflight' = inflight \cup {[n |-> nextEvent + 1, req |-> req]}
            /\ UNCHANGED <<last, forwarded>>
    /\ UNCHANGED <<variant, encryptKey, owns, disconnected, keys, syncVars, groups, now, lifecycleVars, refreshVars,
                   queueVars, taskVars, historyVars>>

\* push: the body is complete: signature, JSON, challenge, token, the response,
\* then processEvent, which runs handleMessageEvent to its end without suspending.
WebhookBody(r) ==
    /\ r \in inflight
    /\ inflight' = inflight \ {r}
    /\ last' = Handled(r.n, r.req, WebhookOutcome(r.req))
    /\ forwarded' = Forward(r.req, WebhookOutcome(r.req))
    /\ UNCHANGED <<variant, encryptKey, owns, disconnected, keys, syncVars, groups, nextEvent, now, lifecycleVars,
                   refreshVars, queueVars, taskVars, historyVars>>

\* pull: handleWebSocketMessage, inside the message handler's try/catch.  A
\* challenge frame is answered on the socket when it carries a challenge.
FrameReply(req) ==
    IF req.json /\ req.kind = "challenge" /\ req.challenge # "undefined"
    THEN Reply(0, StringifyChallenge(req.challenge), FALSE)
    ELSE Reply(0, <<>>, req.json /\ req.kind = "event"
                        /\ req.eventType = "im.message.receive_v1")

WsMessage(req) ==
    /\ variant = "pull"
    /\ ws = "open"
    /\ nextEvent < MaxEvents
    /\ nextEvent' = nextEvent + 1
    /\ LET reply == FrameReply(req)
           out == Outcome(reply,
                          IF reply.process THEN HandleMessageEvent(req) ELSE <<>>,
                          reply.process /\ HandleMessageEventThrows(req)) IN
       /\ last' = Handled(nextEvent + 1, req, out)
       /\ forwarded' = Forward(req, out)
    /\ UNCHANGED <<variant, encryptKey, owns, disconnected, keys, syncVars, groups, inflight, now, lifecycleVars,
                   refreshVars, queueVars, taskVars, historyVars>>

\* sdk: the dispatcher calls the registered im.message.receive_v1 handler.
SdkEvent(req) ==
    /\ variant = "sdk"
    /\ sdkStarted
    /\ nextEvent < MaxEvents
    /\ nextEvent' = nextEvent + 1
    /\ LET out == Outcome(Reply(0, <<>>, TRUE), HandleMessageEvent(req),
                          HandleMessageEventThrows(req)) IN
       /\ last' = Handled(nextEvent + 1, req, out)
       /\ forwarded' = Forward(req, out)
    /\ UNCHANGED <<variant, encryptKey, owns, disconnected, keys, syncVars, groups, inflight, now, lifecycleVars,
                   refreshVars, queueVars, taskVars, historyVars>>

\* The registry is the host's: a chat gets registered.
RegisterGroup(c) ==
    /\ ChatJid(c) \notin groups
    /\ groups' = groups \cup {ChatJid(c)}
    /\ UNCHANGED <<variant, encryptKey, owns, disconnected, keys, syncVars, inflight, nextEvent, last, forwarded, now,
                   lifecycleVars,
                   refreshVars, queueVars, taskVars, historyVars>>

\* ownsJid(key), called by the router at any time.
OwnsJidCall(key) ==
    /\ owns' = [called |-> TRUE, key |-> key, result |-> OwnsJid(key)]
    /\ UNCHANGED <<variant, encryptKey, disconnected, keys, syncVars, inboundVars, now, lifecycleVars,
                   refreshVars, queueVars, taskVars, historyVars>>

\* ------------------------------------------------------------------- Next
Lifecycle ==
    \/ ConnectCall
    \/ ConnectTokenFail
    \/ \E e \in ExpireValues : ConnectListening(e)
    \/ \E e \in ExpireValues : ConnectListenError(e)
    \/ \E e \in ExpireValues : ConnectSocket(e)
    \/ ConnectStarted
    \/ ConnectStartFail
    \/ Disconnect
    \/ WsOpen
    \/ WsError
    \/ WsClose
    \/ ReconnectFire

Outbound ==
    \/ \E c \in SendChats : SendMessage(ChatJid(c))
    \/ \E s \in sends, e \in ExpireValues : SendTokenOk(s, e)
    \/ \E s \in sends : SendTokenFail(s)
    \/ \E s \in sends : SendPostOk(s)
    \/ \E s \in sends : SendPostFail(s)
    \/ \E s \in sends : SendCreateRefused(s)
    \/ TimerFire
    \/ \E e \in ExpireValues : TimerTokenOk(e)
    \/ TimerTokenFail

Drain ==
    \/ FlushOutgoingQueue
    \/ \E d \in drains, e \in ExpireValues : DrainTokenOk(d, e)
    \/ \E d \in drains : DrainTokenFail(d)
    \/ \E d \in drains : DrainPostOk(d)
    \/ \E d \in drains : DrainPostFail(d)
    \/ \E d \in drains : DrainCreateRefused(d)

\* The adapter as src/ wires it: nothing triggers the drain.
Next == Tick \/ Lifecycle \/ Outbound

Spec == Init /\ [][Next]_vars

\* The inbound path of the three variants, with the lifecycle around it.
Inbound ==
    \/ \E req \in WebhookInputs : WebhookRequest(req)
    \/ \E r \in inflight : WebhookBody(r)
    \/ \E req \in FrameInputs : WsMessage(req)
    \/ \E req \in EventInputs : SdkEvent(req)
    \/ \E c \in ChatIds : RegisterGroup(c)

NextIn == Lifecycle \/ Inbound

SpecIn == InitIn /\ [][NextIn]_vars

\* The push variant alone, its listener taking every combination of inputs.
InitWebhook == InitIn /\ variant = "push"

NextWebhook ==
    \/ ConnectCall
    \/ ConnectTokenFail
    \/ \E e \in ExpireValues : ConnectListening(e)
    \/ \E e \in ExpireValues : ConnectListenError(e)
    \/ Disconnect
    \/ \E req \in DecisionInputs : WebhookRequest(req)
    \/ \E r \in inflight : WebhookBody(r)

SpecWebhook == InitWebhook /\ [][NextWebhook]_vars

\* The router's question, in every state the lifecycle reaches.
NextJid == Lifecycle \/ \E key \in Keys : OwnsJidCall(key)

SpecJid == Init /\ [][NextJid]_vars

\* The pull transport alone, connect() called up to MaxPullConnects times.
InitPull == Init /\ variant = "pull"

NextPull ==
    \/ Tick
    \/ ConnectCallUpTo(MaxPullConnects)
    \/ ConnectTokenFail
    \/ \E e \in ExpireValues : ConnectSocket(e)
    \/ Disconnect
    \/ WsOpen
    \/ WsError
    \/ WsClose
    \/ ReconnectFire

SpecPull == InitPull /\ [][NextPull]_vars

\* The socket that emitted 'error' emits 'close'.
CloseAfterError == ws = "closing" /\ WsClose

\* The event loop runs the reconnect timer when it is due, the socket library
\* emits 'close' after 'error', the token endpoint answers.
FairPull ==
    /\ SpecPull
    /\ WF_vars(ReconnectFire)
    /\ WF_vars(CloseAfterError)
    /\ WF_vars(ConnectTokenFail \/ \E e \in ExpireValues : ConnectSocket(e))

\* sendMessage given the key of every native chat id, connected or not, the
\* attempts failing or not.
NextKey ==
    \/ ConnectCall
    \/ ConnectTokenFail
    \/ \E e \in ExpireValues : ConnectListening(e)
    \/ \E e \in ExpireValues : ConnectSocket(e)
    \/ ConnectStarted
    \/ WsOpen
    \/ Disconnect
    \/ \E c \in NativeChatIds : SendMessage(ChatJid(c))
    \/ \E s \in sends, e \in ExpireValues : SendTokenOk(s, e)
    \/ \E s \in sends : SendTokenFail(s)
    \/ \E s \in sends : SendPostOk(s)
    \/ \E s \in sends : SendPostFail(s)

SpecKey == Init /\ [][NextKey]_vars

\* The metadata sync, called by the host and by the daily timer.  It needs no
\* connection: it fetches its own token.
Sync ==
    \/ \E force \in BOOLEAN : SyncGroupMetadata(force)
    \/ \E i \in 1..Len(syncs), e \in ExpireValues : SyncTokenOk(i, e)
    \/ \E i \in 1..Len(syncs) : SyncTokenFail(i)
    \/ \E i \in 1..Len(syncs), items \in ListedChats, more \in FurtherPages :
           SyncListed(i, items, more)
    \/ \E i \in 1..Len(syncs) : SyncListFail(i)
    \/ \E i \in 1..Len(syncs), items \in ListedChats :
           \E k \in 1..Len(items) : SyncWriteFail(i, items, k)
    \/ \E i \in 1..Len(syncs) : SyncListRefused(i)

NextSync == Tick \/ DayPasses \/ Sync

SpecSync == Init /\ [][NextSync]_vars

\* The adapter with the drain triggered as spec.md 4.5 describes.
NextDrain == Tick \/ Lifecycle \/ Outbound \/ Drain

SpecDrain == Init /\ [][NextDrain]_vars

\* The event loop runs every answered request and every due timer; calls from
\* outside (sendMessage, connect, disconnect) and socket events owe nothing.
Responses ==
    \/ \E s \in sends, e \in ExpireValues : SendTokenOk(s, e)
    \/ \E s \in sends : SendTokenFail(s)
    \/ \E s \in sends : SendPostOk(s)
    \/ \E s \in sends : SendPostFail(s)
    \/ \E s \in sends : SendCreateRefused(s)
    \/ \E e \in ExpireValues : TimerTokenOk(e)
    \/ TimerTokenFail
    \/ ConnectTokenFail
    \/ \E e \in ExpireValues : ConnectListening(e)
    \/ \E e \in ExpireValues : ConnectListenError(e)
    \/ \E e \in ExpireValues : ConnectSocket(e)
    \/ ConnectStarted
    \/ ConnectStartFail

FairSpec ==
    /\ Init /\ [][Next]_vars
    /\ WF_vars(Responses)
    /\ WF_vars(TimerFire)
    /\ WF_vars(ReconnectFire)

\* =================================================================== claims
InQueue(item) == \E i \in 1..Len(outgoingQueue) : outgoingQueue[i] = item
Attempted(item) == \E i \in 1..Len(attempts) : attempts[i] = item
FirstAttempt(item) == CHOOSE i \in 1..Len(attempts) :
                          attempts[i] = item /\ \A j \in 1..(i - 1) : attempts[j] # item

\* No call of the adapter is suspended: nothing more happens unless it is called.
Quiescent == connectPc = "idle" /\ sends = {} /\ drains = {} /\ timerRefreshes = 0

\* C1: Ordering after reconnect.  Once connect() has succeeded and the adapter
\* has come to rest connected, no item queued while disconnected is still waiting
\* in the queue without a delivery attempt, and of two such items the one queued
\* first has its first attempt first.
C1_OrderingAfterReconnect ==
    /\ (connectResult = "resolved" /\ connected /\ Quiescent) =>
           \A i \in 1..Len(queuedOffline) :
               InQueue(queuedOffline[i]) => Attempted(queuedOffline[i])
    /\ \A i, j \in 1..Len(queuedOffline) :
           (i < j /\ Attempted(queuedOffline[j])) =>
               /\ Attempted(queuedOffline[i])
               /\ FirstAttempt(queuedOffline[i]) < FirstAttempt(queuedOffline[j])

\* C2: No outbound message is lost.  Every item sendMessage accepted is delivered,
\* or in the outbound queue, or held by a delivery attempt still in progress (of
\* the fast path or of the drain loop).
C2_NoMessageLost ==
    \A item \in accepted :
        \/ item \in delivered
        \/ InQueue(item)
        \/ \E s \in sends : s.item = item
        \/ \E d \in drains : d.item = item

\* C3: Queued and failed sends are retried.  Whenever the queue is non-empty and
\* the transport is connected, a drain eventually runs (or the queue has emptied,
\* or the connection is lost again).
C3_QueuedSendsRetried ==
    (connected /\ Len(outgoingQueue) > 0)
        ~> (flushing \/ Len(outgoingQueue) = 0 \/ ~connected)

\* C4: Refresh coalescing.  At most one request to the token endpoint is in
\* flight, however many callers need a fresh token.
C4_RefreshCoalescing == TokenRequestsInFlight <= 1

\* C5 as stated: whenever ensureToken returns, the token it returns is more than
\* the margin away from its expiry, whatever validity the provider reported.
C5_TokenNeverInMargin == lastReturn.any => lastReturn.left > Margin

\* C5, amended: whenever ensureToken returns, and the refresh it awaited (if it
\* awaited one) reported a validity longer than the margin, the token it returns
\* is more than the margin away from its expiry.
C5_TokenValidUnlessShortLived ==
    (lastReturn.any /\ (lastReturn.expire = 0 \/ lastReturn.expire > Margin))
        => lastReturn.left > Margin

\* ensureToken has returned after the clock moved, once without a refresh.
C5_Witness == lastReturn.any /\ lastReturn.expire = 0 /\ now > 0 /\ Len(attempts) > 1

\* C6: A failed refresh keeps the old credential.  In the step in which a token
\* request is answered with a failure, tenantToken and tokenExpiry keep their
\* values and the error reaches the caller: ensureToken returns nothing and no
\* send request follows, and a connect() waiting for it rejects without
\* touching connected.
C6_FailedRefreshKeepsToken ==
    [][(TokenRequestsInFlight' < TokenRequestsInFlight /\ ~lastRefreshOk') =>
           /\ tenantToken' = tenantToken
           /\ tokenExpiry' = tokenExpiry
           /\ attempts' = attempts
           /\ lastReturn' = lastReturn
           /\ connected' = connected
           /\ (connectPc = "token" /\ connectPc' # "token") => connectResult' = "rejected"
      ]_vars

\* A refresh has failed while a token was cached, and the token is still there.
C6_Witness == ~lastRefreshOk /\ tenantToken # NoToken /\ tokenExpiry > now

\* ------------------------------------------------------- inbound claims
Count(calls, fn) == Cardinality({i \in 1..Len(calls) : calls[i].fn = fn})

\* The last handled input was a message event that reached handleMessageEvent.
MessageEventHandled ==
    last.n > 0 /\ last.normalized /\ last.req.eventType = "im.message.receive_v1"

\* C7: Self-loop prevention.  In every variant, a message event whose
\* sender_type is 'app' causes no onMessage call, registered chat or not.
C7_SelfLoopPrevention ==
    (last.n > 0 /\ last.req.senderType = "app") => Count(last.calls, "onMessage") = 0

\* An otherwise forwardable event of the bot itself, in a registered chat, was handled.
C7_Witness ==
    /\ MessageEventHandled
    /\ last.req.senderType = "app"
    /\ last.registered /\ last.req.contentOk /\ last.req.timeOk

\* C8: Registration gating.  In every variant, a message event of a non-bot
\* sender (with a valid create_time) whose chat key is not registered causes no
\* onMessage call and exactly one onChatMetadata call.
C8_RegistrationGating ==
    (MessageEventHandled /\ last.req.senderType # "app" /\ last.req.timeOk
     /\ ~last.registered) =>
        /\ Count(last.calls, "onMessage") = 0
        /\ Count(last.calls, "onChatMetadata") = 1

\* C9 as stated: onChatMetadata is called exactly once for every message event
\* the transport receives (here: of those whose create_time is a valid date).
C9_MetadataForEveryEvent ==
    (MessageEventHandled /\ last.req.timeOk) => Count(last.calls, "onChatMetadata") = 1

\* C9, amended: onChatMetadata is called exactly once, with the chat key built
\* from the event's chat id, for every message event of a non-bot sender whose
\* create_time is a valid date, registered or not, forwarded or dropped.
C9_MetadataForEveryUserEvent ==
    (MessageEventHandled /\ last.req.senderType # "app" /\ last.req.timeOk) =>
        /\ Count(last.calls, "onChatMetadata") = 1
        /\ \A i \in 1..Len(last.calls) :
               last.calls[i].fn = "onChatMetadata" =>
                   last.calls[i].chatJid = ChatJid(last.req.chatId)

\* A user's event in an unregistered chat with unparsable content was handled
\* by the push variant and dropped.
C9_Witness ==
    /\ MessageEventHandled
    /\ variant = "push"
    /\ last.req.senderType = "user" /\ last.req.timeOk
    /\ ~last.registered /\ ~last.req.contentOk
    /\ Count(last.calls, "onMessage") = 0

\* A POST to the webhook route whose JSON payload is a challenge carrying a value.
ChallengePost(req) ==
    /\ req.path = "/webhook/feishu" /\ req.method = "POST"
    /\ req.json /\ req.kind = "challenge" /\ req.challenge # "undefined"

\* C10 as stated: every challenge POST is answered 200 with {"challenge": c} and
\* causes no callback.
C10_ChallengeRoundTrip ==
    (variant = "push" /\ last.n > 0 /\ ChallengePost(last.req)) =>
        /\ last.status = 200
        /\ last.body = <<"{", "\"challenge\"", ":", "\"" \o last.req.challenge \o "\"", "}">>
        /\ last.calls = <<>>

\* C10, amended: a challenge POST that carries the valid signature when a
\* signing secret is configured is answered 200 with {"challenge": c} in the
\* step that handles it, with no callback and no token request, and the
\* registry and the cached credential are not touched.
C10_ChallengeRoundTripSigned ==
    [][(variant = "push" /\ last' # last /\ ChallengePost(last'.req)
        /\ (encryptKey => SignatureOk(last'.req))) =>
           /\ last'.status = 200
           /\ last'.body =
                  <<"{", "\"challenge\"", ":", "\"" \o last'.req.challenge \o "\"", "}">>
           /\ last'.calls = <<>>
           /\ TokenRequestsInFlight' = TokenRequestsInFlight
           /\ UNCHANGED <<tenantToken, tokenExpiry, groups>>
      ]_vars

\* A signed challenge was answered 200 with a secret configured, while a chat
\* was unregistered and the adapter had been disconnected.
C10_Witness ==
    /\ variant = "push" /\ encryptKey
    /\ last.n > 0 /\ ChallengePost(last.req) /\ last.status = 200
    /\ ChatJid(<<"oc_b">>) \notin groups
    /\ ~connected

\* A POST to the webhook route: the request reaches the body of the handler.
RoutePost(req) == req.path = "/webhook/feishu" /\ req.method = "POST"

\* C11: Signature check (push).  With a signing secret configured, a POST to the
\* webhook route whose signature header is missing or is not the digest of the
\* body is answered 401, and no callback and no event processing happens for it.
C11_SignatureCheck ==
    (variant = "push" /\ encryptKey /\ last.n > 0 /\ RoutePost(last.req)
     /\ last.req.sig \in {"missing", "invalid"}) =>
        /\ last.status = 401
        /\ last.body = <<"Unauthorized">>
        /\ ~last.normalized
        /\ last.calls = <<>>

\* An otherwise forwardable event of a registered chat arrived with a wrong
\* digest while a secret was configured.
C11_Witness ==
    /\ variant = "push" /\ encryptKey /\ last.n > 0
    /\ last.req = [Good(A) EXCEPT !.sig = "invalid"]
    /\ last.registered
    /\ last.status = 401

\* An event payload that passed the signature check and parsed, with a header
\* token other than the configured verification token.
WrongToken(req) ==
    /\ RoutePost(req) /\ (encryptKey => SignatureOk(req))
    /\ req.json /\ req.kind = "event" /\ ~req.tokenOk

\* C12: Verification-token check (push).  An event whose header token differs
\* from the configured one is answered 401 in the step that handles it, with no
\* callback, no processing and no new request to the provider, and the connected
\* flag, the queue and the credential keep their values.
C12_TokenCheck ==
    [][(variant = "push" /\ last' # last /\ WrongToken(last'.req)) =>
           /\ last'.status = 401
           /\ ~last'.normalized
           /\ last'.calls = <<>>
           /\ TokenRequestsInFlight' = TokenRequestsInFlight
           /\ UNCHANGED <<connected, outgoingQueue, flushing, tenantToken, tokenExpiry>>
      ]_vars

\* A wrong-token event of a registered chat was rejected while the adapter was
\* connected and held a token.
C12_Witness ==
    /\ variant = "push" /\ last.n > 0 /\ WrongToken(last.req)
    /\ last.status = 401 /\ last.registered
    /\ connected /\ tenantToken # NoToken

\* C13: Acknowledge before processing (push).  For every event that passes
\* validation the response is 200 OK, writing it is the first thing the handler
\* does and it is written once, every callback comes after it, and this is so
\* also when the processing raises an exception.
C13_AckBeforeProcessing ==
    (variant = "push" /\ last.n > 0 /\ last.normalized) =>
        /\ last.status = 200 /\ last.body = <<"OK">>
        /\ Len(last.effects) > 0 /\ Head(last.effects) = Respond
        /\ \A i \in 2..Len(last.effects) : last.effects[i] # Respond

\* The processing of an acknowledged event of a registered chat raised an
\* exception (create_time is not a date), and the response given was 200.
C13_Witness ==
    /\ variant = "push" /\ last.n > 0 /\ last.normalized
    /\ last.threw /\ last.registered
    /\ last.status = 200

\* The checks of the webhook handler in the order the claim lists them, each
\* with the status it gives when it is the first to fail (for the challenge: to
\* apply).
C14_Checks(req) ==
    << [hit |-> req.path # "/webhook/feishu", status |-> 404],
       [hit |-> req.method # "POST", status |-> 405],
       [hit |-> encryptKey /\ req.sig # "valid", status |-> 401],
       [hit |-> ~req.json, status |-> 400],
       [hit |-> req.kind = "challenge", status |-> 200],
       [hit |-> req.kind = "event" /\ ~req.tokenOk, status |-> 401] >>

\* The status of the first check of the list that hits, `otherwise` if none does.
FirstHit(checks, otherwise) ==
    IF \E i \in 1..Len(checks) : checks[i].hit
    THEN checks[CHOOSE i \in 1..Len(checks) :
                    checks[i].hit /\ \A j \in 1..(i - 1) : ~checks[j].hit].status
    ELSE otherwise

AttemptsOf(item) == Cardinality({i \in 1..Len(attempts) : attempts[i] = item})
WasQueuedOffline(item) == \E i \in 1..Len(queuedOffline) : queuedOffline[i] = item

\* C15: Buffering while disconnected.  A sendMessage call made while connected
\* is false appends its item, and nothing else, at the tail of the queue, sends
\* no token request and no send request, and its promise resolves in the same step.
C15_BufferingWhileDisconnected ==
    [][(nextText' = nextText + 1 /\ ~connected) =>
           /\ \E c \in SendChats :
                  outgoingQueue' = Append(outgoingQueue, [chatId |-> c, text |-> nextText'])
           /\ TokenRequestsInFlight' = TokenRequestsInFlight
           /\ attempts' = attempts
           /\ sends' = sends
           /\ [text |-> nextText', result |-> "resolved"] \in sendResult'
      ]_vars

\* An item queued while disconnected stands behind one that was queued earlier
\* by a failed send.
C15_Witness ==
    /\ ~connected /\ Len(outgoingQueue) = 2
    /\ ~WasQueuedOffline(outgoingQueue[1])
    /\ WasQueuedOffline(outgoingQueue[2])

\* C16: Fast-path failure re-enqueues at the tail.  In the step in which a
\* sendMessage call ends without the provider having accepted its message
\* (refresh error, network error, non-OK status, non-zero code), its item is
\* appended at the tail of the queue and no request is sent; and no call sends
\* more than one send request.
C16_FastPathFailureRequeues ==
    [][/\ \A s \in sends :
              ((\A t \in sends' : t.item # s.item) /\ s.item \notin delivered') =>
                  /\ outgoingQueue' = Append(outgoingQueue, s.item)
                  /\ attempts' = attempts
                  /\ TokenRequestsInFlight' <= TokenRequestsInFlight
       /\ \A item \in accepted' : AttemptsOf(item)' <= 1
      ]_vars

\* C17: Delivery errors are never surfaced.  The promise of every sendMessage
\* call that is not suspended has resolved, and none has rejected.
C17_SendMessageNeverRejects ==
    /\ \A r \in sendResult : r.result = "resolved"
    /\ \A item \in accepted :
           \/ \E s \in sends : s.item = item
           \/ [text |-> item.text, result |-> "resolved"] \in sendResult

\* A call made while connected whose credential refresh failed has settled, and
\* another whose send request failed.
C17_Witness ==
    /\ Cardinality(sendResult) = 2 /\ Len(outgoingQueue) = 2
    /\ \A i \in 1..2 : ~WasQueuedOffline(outgoingQueue[i])
    /\ AttemptsOf(outgoingQueue[1]) + AttemptsOf(outgoingQueue[2]) = 1

\* ------------------------------------------------------------- sync claims
SyncDone(i) == syncs[i].pc \in {"skipped", "ok", "failed"}
Listed(i) == syncs[i].listing # "none"

\* Two non-forced calls, i before j, both finished, made within the sync
\* interval of each other.
SyncPair(i, j) ==
    /\ i < j /\ ~syncs[i].force /\ ~syncs[j].force
    /\ SyncDone(i) /\ SyncDone(j)
    /\ syncs[j].at - syncs[i].at < SyncInterval

\* C18 as stated: two non-forced calls made within the sync interval of each
\* other, the first of which performs the listing, perform exactly one listing
\* call in total, also when they overlap and when the first one fails.
C18_SyncRateLimit ==
    (Len(syncs) >= 2 /\ SyncPair(1, 2) /\ Listed(1)) =>
        Cardinality({i \in {1, 2} : Listed(i)}) = 1

\* C18, amended: of two non-forced calls made within the sync interval of each
\* other, when the first performed the listing and had completed successfully
\* before the second started, the second performs no listing: one listing call
\* in total.
C18_SyncRateLimitAfterSuccess ==
    \A i, j \in 1..Len(syncs) :
        (SyncPair(i, j) /\ Listed(i) /\ syncs[j].prior[i] = "ok") =>
            /\ ~Listed(j)
            /\ syncs[j].pc = "skipped"

\* A first call listed and succeeded, the clock moved, and a second non-forced
\* call was skipped.
C18_Witness ==
    /\ Len(syncs) = 2 /\ SyncPair(1, 2)
    /\ syncs[1].pc = "ok" /\ syncs[1].listing = "ok"
    /\ syncs[2].pc = "skipped" /\ syncs[2].at > syncs[1].at

\* C19: Sync cursor is written only on full success.  The cursor changes only in
\* a step in which a call's listing has succeeded and every named chat of it
\* has been written; a call that ends in a failure (credential error, failed
\* listing, exception while writing names) leaves the cursor as it is; and a
\* non-forced call that starts with no cursor performs the listing or its
\* token refresh.
C19_CursorOnlyOnFullSuccess ==
    [][/\ lastGroupSync' # lastGroupSync =>
              \E i \in 1..Len(syncs) :
                  /\ syncs[i].pc = "list" /\ syncs'[i].pc = "ok"
                  /\ syncs'[i].listing = "ok"
                  /\ NamesWritten(syncs'[i].items, Len(syncs'[i].items)) \subseteq chatNames'
                  /\ lastGroupSync' = now
       /\ \A i \in 1..Len(syncs) :
              (~SyncDone(i) /\ (syncs'[i].pc = "failed" \/ syncs'[i].listing = "failed")) =>
                  lastGroupSync' = lastGroupSync
       /\ (Len(syncs') > Len(syncs) /\ lastGroupSync = NoSync) =>
              syncs'[Len(syncs')].pc \in {"token", "list"}
      ]_vars

\* ---------------------------------------------------------- lifecycle claims
\* C20: isConnected() tracks the transport's ready state.  It is false
\* initially.  It becomes true only when connect() completes successfully
\* (push, sdk) or the socket opens (pull); it becomes false only by
\* disconnect() or, in pull, by an error or close event of the socket; and it
\* is false after every disconnect(), after every error event and after every
\* close event.
C20_IsConnectedTracksReady ==
    /\ ~connected
    /\ [][/\ (~connected /\ connected') =>
                 \/ WsOpen
                 \/ /\ variant # "pull"
                    /\ connectResult = "pending" /\ connectResult' = "resolved"
          /\ (connected /\ ~connected') => (Disconnect \/ WsError \/ WsClose)
          /\ Disconnect => ~connected'
          /\ WsError => ~connected'
          /\ WsClose => ~connected'
      ]_vars

\* ------------------------------------------------------------------ C21
\* C21: No event is forwarded twice: whenever the provider delivers the same
\* event (the same message id in the same chat) more than once, one after the
\* other or overlapping, onMessage is called at most once for it.
C21_Deduplication ==
    \A i, j \in 1..Len(forwarded) :
        (forwarded[i].id = forwarded[j].id /\ forwarded[i].chatJid = forwarded[j].chatJid)
            => i = j

\* ------------------------------------------------------------------ C22
\* C22: ownsJid(key) answers true exactly when key ends with "@feishu.net",
\* that is when key is some prefix followed by that suffix, for every key;
\* the call leaves every field of the adapter as it was.
C22_OwnsJid ==
    [][owns' # owns =>
          /\ owns'.result <=> \E prefix \in Keys : owns'.key = prefix \o <<"@feishu.net">>
          /\ UNCHANGED <<variant, encryptKey, disconnected, keys, syncVars, inboundVars, now,
                         lifecycleVars, refreshVars, queueVars, taskVars, historyVars>>
      ]_vars

\* A key of this channel is recognised while the adapter is connected.
C22_Witness ==
    /\ connected
    /\ owns.called
    /\ owns.key = ChatJid(<<"oc_a">>)
    /\ owns.result

\* ------------------------------------------------------------------ C23
\* C23: At most one drain is in progress at any time, the flag is set exactly
\* while there is one, and while a drain is suspended no item leaves the queue
\* and no attempt of a drain starts except by that drain resuming: a second
\* trigger returns without effect.
C23_DrainReentrancy ==
    /\ Cardinality(drains) <= 1
    /\ flushing <=> drains # {}
    /\ [][\A d \in drains :
             (outgoingQueue' # outgoingQueue \/ drains' # drains)
                 => \/ d \notin drains'
                    \/ /\ drains' = drains
                       /\ Len(outgoingQueue') = Len(outgoingQueue) + 1
                       /\ SubSeq(outgoingQueue', 1, Len(outgoingQueue)) = outgoingQueue
       ]_vars

\* A drain is suspended on its first item while the adapter is connected and
\* the queue holds another: a further trigger finds the flag set.
C23_Witness ==
    /\ connected
    /\ flushing
    /\ Len(outgoingQueue) > 0
    /\ \E d \in drains : d.pc = "post"

\* ------------------------------------------------------------------ C24
\* C24: A drain attempts the items from the head: whenever a drain starts an
\* attempt, the item is the head of the queue and leaves it, and no other
\* attempt of a drain is under way; whatever is queued meanwhile goes to the
\* tail, so it is attempted after everything ahead of it.
C24_DrainOrder ==
    [][/\ \A d \in drains' :
             (\A e \in drains : e.item # d.item)
                 => /\ Len(outgoingQueue) > 0
                    /\ d.item = Head(outgoingQueue)
                    /\ outgoingQueue' = Tail(outgoingQueue)
                    /\ drains' = {d}
       /\ Len(outgoingQueue') > Len(outgoingQueue)
             => SubSeq(outgoingQueue', 1, Len(outgoingQueue)) = outgoingQueue
      ]_vars

\* The drain is attempting the second item queued while disconnected, the
\* first one delivered.
C24_Witness ==
    /\ Len(queuedOffline) = 2
    /\ queuedOffline[1] \in delivered
    /\ \E d \in drains : d.item = queuedOffline[2]

\* ------------------------------------------------------------------ C25
\* C25: When a sync has updated the cursor, updateChatName has been called for
\* every named chat the provider reported, on whichever page of the listing.
C25_SyncCoversEveryPage ==
    \A i \in 1..Len(syncs) :
        (syncs[i].pc = "ok" /\ syncs[i].listing = "ok")
            => LET all == syncs[i].items \o syncs[i].unread IN
               NamesWritten(all, Len(all)) \subseteq chatNames

\* ------------------------------------------------------------------ C26
\* C26: On a socket error and on a socket close alike, the pull adapter is
\* Disconnected afterwards, its heartbeat is stopped and one reconnect is
\* scheduled.
C26_PullFailureHandling ==
    [][(WsError \/ WsClose) =>
          /\ ~connected'
          /\ ~heartbeatTimer' /\ heartbeatsArmed' = 0
          /\ reconnectTimer' = "pending" /\ reconnectsArmed' = 1
      ]_vars

\* ------------------------------------------------------------------ C27
\* C27: At most one reconnect timer is armed at any time, and it is the one the
\* field holds; a close event leaves exactly one armed, whether or not one was
\* pending; when the timer fires none is left, so a burst of close events
\* leads to a single attempt.
C27_SingleReconnectTimer ==
    /\ reconnectsArmed = 0
    /\ [][/\ reconnectsArmed' <= 1
          /\ reconnectsArmed' = 1 <=> reconnectTimer' = "pending"
          /\ WsClose => reconnectsArmed' = 1
          /\ ReconnectFire => reconnectsArmed' = 0
       ]_vars

\* A reconnect was scheduled while another was pending, and one timer is armed.
C27_Witness ==
    /\ rearmed.reconnect
    /\ reconnectsArmed = 1
    /\ ws = "closed"

\* ------------------------------------------------------------------ C28
\* C28: The open handler leaves exactly one heartbeat timer alive, whether or
\* not one existed; there is never more than one; and there is none while the
\* adapter is Disconnected.
C28_Heartbeat ==
    /\ heartbeatsArmed = 0
    /\ [][/\ heartbeatsArmed' <= 1
          /\ heartbeatsArmed' = 1 <=> heartbeatTimer'
          /\ ~connected' => heartbeatsArmed' = 0
          /\ WsOpen => (connected' /\ heartbeatsArmed' = 1)
          /\ (WsClose \/ Disconnect) => heartbeatsArmed' = 0
       ]_vars

\* A socket opened while the heartbeat of an earlier one was alive: one is left.
C28_Witness ==
    /\ rearmed.heartbeat
    /\ connected
    /\ ws = "open"
    /\ heartbeatsArmed = 1

\* ------------------------------------------------------------------ C29
\* C29: Whenever the socket is lost (closing after an error, or closed), a new
\* attempt follows unless disconnect() is called, however often this has
\* happened before; and if the provider accepts an attempt whenever attempts
\* keep being made, the adapter is Connected again unless disconnect() is called.
C29_PullNeverGivesUp ==
    /\ (ws \in {"closing", "closed"}) ~> (ws \in {"connecting", "null"})
    /\ SF_vars(WsOpen) =>
           ((ws \in {"closing", "closed"}) ~> ((connected /\ ws = "open") \/ ws = "null"))

\* The attempt the timer made after a loss was accepted.
C29_Witness ==
    /\ connects = 1
    /\ reconnectTimer = "fired"
    /\ ws = "open"
    /\ connected

\* ------------------------------------------------------------------ C30
\* C30: onMessage is called only while isConnected() returns true: never before
\* connect() has reached the connected state, never after disconnect() and
\* before the next connect().
C30_InboundOnlyWhileConnected ==
    \A i \in 1..Len(forwarded) : forwarded[i].connected

\* ------------------------------------------------------------------ C31
\* C31: connect(), disconnect(), the loss of the connection and the reconnect
\* leave the outbound queue as it is; the queue grows only by a step of a
\* sendMessage call, which appends one accepted item at the tail, and shrinks
\* only by a drain taking the head for delivery.
C31_QueueSurvivesReconnects ==
    [][/\ Lifecycle => outgoingQueue' = outgoingQueue
       /\ outgoingQueue' # outgoingQueue =>
             \/ /\ nextText' # nextText \/ (sends' # sends /\ sends' \subseteq sends)
                /\ \E item \in accepted' : outgoingQueue' = Append(outgoingQueue, item)
             \/ /\ Len(outgoingQueue) > 0
                /\ outgoingQueue' = Tail(outgoingQueue)
                /\ \E d \in drains' : d.item = Head(outgoingQueue) /\ d \notin drains
      ]_vars

\* Two messages queued while the adapter was disconnected are still queued, in
\* order, now that it is connected: the queue went through the connect (or the
\* reconnect) untouched.
C31_Witness ==
    /\ Len(outgoingQueue) = 2
    /\ outgoingQueue = queuedOffline
    /\ connected
    /\ ~flushing

\* ------------------------------------------------------------------ C32
\* The step handles a message event of a non-bot sender, in a registered chat,
\* with parseable content.
PassesDropConditions ==
    /\ last' # last
    /\ last'.normalized /\ last'.req.eventType = "im.message.receive_v1"
    /\ last'.req.senderType # "app" /\ last'.registered /\ last'.req.contentOk

\* The step that handles the event calls onMessage exactly once, with the chat
\* key built from the event's chat id.
ForwardedOnceInStep ==
    /\ Count(last'.calls, "onMessage") = 1
    /\ \A i \in 1..Len(last'.calls) :
           last'.calls[i].fn = "onMessage" =>
               last'.calls[i].chatJid = ChatJid(last'.req.chatId)
    /\ Len(forwarded') = Len(forwarded) + 1
    /\ forwarded'[Len(forwarded')].chatJid = ChatJid(last'.req.chatId)
    /\ forwarded'[Len(forwarded')].id = last'.req.messageId

\* C32 as stated: every message event that passes the three drop conditions
\* is forwarded exactly once, in the step that handles it.
C32_ExactlyOnceForwarding ==
    [][PassesDropConditions => ForwardedOnceInStep]_vars

\* C32, amended: every message event that passes the three drop conditions and
\* whose create_time is a valid time is forwarded exactly once, with the chat
\* key built from its chat id, in the step that handles it.
C32_ExactlyOnceForwardingOfTimedEvents ==
    [][(PassesDropConditions /\ last'.req.timeOk) => ForwardedOnceInStep]_vars

\* A forwardable event of the registered chat was handled and forwarded.
C32_Witness ==
    /\ MessageEventHandled
    /\ last.req.senderType = "user" /\ last.registered
    /\ last.req.contentOk /\ last.req.timeOk
    /\ Len(forwarded) > 0
    /\ forwarded[Len(forwarded)].chatJid = ChatJid(last.req.chatId)

\* ------------------------------------------------------------------ C33
\* C33: The self-sender test comes first: handling an event sent by the bot
\* itself makes no callback at all, neither onChatMetadata nor onMessage, and
\* does not consult registeredGroups().
C33_DropOrder ==
    (last.n > 0 /\ last.req.senderType = "app") =>
        /\ last.calls = <<>>
        /\ ~last.threw

\* An event of the bot itself in a chat that is not registered, which would
\* have reached onChatMetadata and the registry had it come from a user.
C33_Witness ==
    /\ MessageEventHandled
    /\ last.req.senderType = "app"
    /\ ~last.registered /\ last.req.timeOk
    /\ last.calls = <<>>

\* ------------------------------------------------------------------ C34
\* C34: Handling a message event of a registered chat whose content does not
\* parse calls onMessage not at all, raises no exception for the content (the
\* only exception is the one of an invalid create_time, which the caller
\* logs), and leaves the connection, the timers, the queue, the credential and
\* the calls in flight as they were.
C34_MalformedContentDropped ==
    [][(/\ last' # last
        /\ last'.normalized /\ last'.req.eventType = "im.message.receive_v1"
        /\ last'.registered /\ ~last'.req.contentOk)
          => /\ Count(last'.calls, "onMessage") = 0
             /\ forwarded' = forwarded
             /\ last'.threw => (last'.req.senderType # "app" /\ ~last'.req.timeOk)
             /\ last'.status \in {0, 200}
             /\ UNCHANGED <<lifecycleVars, queueVars, refreshVars, taskVars, historyVars>>
      ]_vars

\* A user's event with unparsable content and a valid create_time, in the
\* registered chat, was handled while the adapter was connected.
C34_Witness ==
    /\ MessageEventHandled
    /\ connected
    /\ last.req.senderType = "user" /\ last.registered
    /\ ~last.req.contentOk /\ last.req.timeOk
    /\ Count(last.calls, "onChatMetadata") = 1
    /\ ~last.threw

\* ------------------------------------------------------------------ C35
\* C35: disconnect() leaves none of the adapter's timers alive (token refresh,
\* heartbeat, reconnect), and whatever connect() and disconnect() calls have
\* been made, at most one timer of each kind is alive.
C35_TimersFollowLifecycle ==
    /\ refreshTimers = 0
    /\ [][/\ refreshTimers' <= 1 /\ heartbeatsArmed' <= 1 /\ reconnectsArmed' <= 1
          /\ Disconnect =>
                (refreshTimers' = 0 /\ heartbeatsArmed' = 0 /\ reconnectsArmed' = 0)
       ]_vars

\* ------------------------------------------------------------------ C36
\* C36: In the pull variant, from a call of disconnect() until the next call of
\* connect(), there is no socket (so no handler attached and no attempt under
\* way), no reconnect timer is armed and isConnected() is false, whatever was
\* pending when disconnect() was called.
C36_PullStaysDown ==
    (variant = "pull" /\ disconnected) =>
        /\ ws = "null"
        /\ reconnectTimer = "null" /\ reconnectsArmed = 0
        /\ ~connected

\* ------------------------------------------------------------------ C37
\* The items of the model that carry a given text: accepted, queued, in a call
\* in flight, or seen by the provider as a send request.
ItemsOf(n) ==
    {it \in accepted \cup {outgoingQueue[k] : k \in 1..Len(outgoingQueue)}
            \cup {attempts[k] : k \in 1..Len(attempts)}
            \cup {x.item : x \in sends} : it.text = n}

\* C37: When sendMessage is given the chat key built for a native chat id c,
\* the queued item and every send request for that message are addressed to
\* exactly c, also when c begins with "feishu_" or ends with "@feishu.net".
C37_ChatKeyRoundTrip ==
    \A n \in 1..Len(keys) :
        \E c \in NativeChatIds :
            /\ keys[n] = ChatJid(c)
            /\ ItemsOf(n) # {}
            /\ \A it \in ItemsOf(n) : it.chatId = c

\* A message for a chat whose id begins with the prefix was queued, and one for
\* a chat whose id ends with the suffix went out as a send request.
C37_Witness ==
    /\ \E k \in 1..Len(outgoingQueue) :
           outgoingQueue[k].chatId = <<"feishu_", "oc_a">>
    /\ \E k \in 1..Len(attempts) :
           attempts[k].chatId = <<"oc_a", "@feishu.net">>

\* ------------------------------------------------------------------ C38
\* C38: The drain flag is never stuck: the flag is set only while a drain is
\* running, and whenever the running drain ends, by finding the queue empty
\* or by a delivery that threw, the flag is false again, so that with items
\* left in the queue the entry test of flushOutgoingQueue lets the next
\* trigger through.
C38_DrainFlagNeverStuck ==
    /\ flushing => drains # {}
    /\ [][/\ flushing' => drains' # {}
          /\ (drains # {} /\ drains' = {})
                => /\ ~flushing'
                   /\ Len(outgoingQueue') > 0 => ~FlushReturnsAtOnce'
       ]_vars

\* A drain has ended by a throw: the first item queued while disconnected has
\* left the queue undelivered, the second is still queued, no drain is running
\* and the flag is down while the adapter is connected.
C38_Witness ==
    /\ connected
    /\ ~flushing
    /\ drains = {}
    /\ Len(queuedOffline) = 2
    /\ queuedOffline[1] \notin delivered
    /\ outgoingQueue = <<queuedOffline[2]>>

====
